---- MODULE Spec2Model ----
(***************************************************************************)
(* Model of the CSG / BSP boolean-operations engine (BooleanOperator.js,   *)
(* kept as src/unnamed/part_007) together with the in-place Vec3           *)
(* arithmetic of Vector.js it relies on.                                   *)
(*                                                                         *)
(* JavaScript objects are modelled as cells of a heap so that aliasing is  *)
(* explicit:                                                               *)
(*   heap.verts  : Vertex objects  [position, normal, uv]                  *)
(*   heap.arrs   : vertex arrays   (Polygon.vertices, reversed in place)   *)
(*   heap.planes : plane objects   {normal, w}  (normal is a Vec3 ref)     *)
(*   heap.vecs   : Vec3 objects used as plane normals                      *)
(* A Polygon object is the pair of its two (never reassigned) fields; its  *)
(* identity is the identity of the plane object its constructor created.   *)
(*                                                                         *)
(* Numbers: coordinates are integers counting units of 0.5, so the unit    *)
(* cube centred at the origin spans -1..1.  On the axis-aligned inputs     *)
(* used here all of the source's arithmetic (cross, normalize, the         *)
(* crossing parameter t, interpolation) is exact on that grid.             *)
(***************************************************************************)
EXTENDS Integers, Sequences, FiniteSets, TLC

NULL == <<>>
Some(x) == <<x>>

\* JavaScript statement order: `const x = e; K` -- e is evaluated completely
\* (the heap it yields included) before the statements K that follow it
Then(e, K(_)) == CHOOSE y \in {K(x) : x \in {e}} : TRUE

\* for (i = lo; i <= hi; i++) S = Body(S, i), the iterations in order
For(S, lo, hi, Body(_, _)) ==
    LET RECURSIVE Range(_, _, _)
        Range(T, l, h) ==
            IF l > h THEN T
            ELSE IF l = h THEN Body(T, l)
            ELSE Then(Range(T, l, (l + h) \div 2),
                      LAMBDA T1 : Range(T1, (l + h) \div 2 + 1, h))
    IN  Range(S, lo, hi)

---------------------------------------------------------------------------
(* Vector.js, class Vec3.  The methods mutate `this`; every use in the     *)
(* engine is on a fresh clone, except normal.mul(-1) in flip/invert, which *)
(* is modelled as a heap write below.                                      *)

Vec3(x, y, z) == <<x, y, z>>

add(a, b) == <<a[1] + b[1], a[2] + b[2], a[3] + b[3]>>

sub(a, b) == <<a[1] - b[1], a[2] - b[2], a[3] - b[3]>>

mul(a, k) == <<a[1] * k, a[2] * k, a[3] * k>>

dot(a, b) == a[1] * b[1] + a[2] * b[2] + a[3] * b[3]

cross(a, b) ==
    <<a[2] * b[3] - a[3] * b[2],
      a[3] * b[1] - a[1] * b[3],
      a[1] * b[2] - a[2] * b[1]>>

Abs(n) == IF n < 0 THEN -n ELSE n

\* exact quotient of two integers, any signs (JS `/` where it is exact)
Quot(n, d) == IF d < 0 THEN (-n) \div (-d) ELSE n \div d

\* Math.sqrt(x*x + y*y + z*z); exact for the axis-aligned vectors used
length(a) ==
    LET sq == dot(a, a)
    IN  CHOOSE r \in 0..(Abs(a[1]) + Abs(a[2]) + Abs(a[3])) : r * r = sq

normalize(a) ==
    LET len == length(a)
    IN  IF len # 0 THEN <<Quot(a[1], len), Quot(a[2], len), Quot(a[3], len)>>
        ELSE a

---------------------------------------------------------------------------
(* Constants for polygon splitting *)

COPLANAR == 0
FRONT == 1
BACK == 2
SPANNING == 3

\* const EPSILON = 1e-5, as a fraction of the 0.5 grid unit (2e-5 = 1/50000)
EPSILON == [num |-> 1, den |-> 50000]

\* this.polygons.length > 1000 in build
CEILING == 1000

\* bitwise OR on the two-bit classification codes
BitOr(a, b) ==
    (IF a % 2 = 1 \/ b % 2 = 1 THEN 1 ELSE 0)
    + (IF a \div 2 = 1 \/ b \div 2 = 1 THEN 2 ELSE 0)

---------------------------------------------------------------------------
(* Heap *)

EmptyHeap == [verts |-> <<>>, arrs |-> <<>>, planes |-> <<>>, vecs |-> <<>>]

\* new Array / array literal
NewArray(H, elems) ==
    [H |-> [H EXCEPT !.arrs = Append(@, elems)], ref |-> Len(H.arrs) + 1]

\* class Vertex, constructor: position and normal are cloned, uv defaults
Vertex(H, position, normal, uv) ==
    [H |-> [H EXCEPT !.verts = Append(@,
                [position |-> position,
                 normal |-> IF normal # NULL THEN normal ELSE Vec3(0, 0, 0),
                 uv |-> IF uv # NULL THEN uv ELSE <<0, 0>>])],
     ref |-> Len(H.verts) + 1]

Vertex_clone(H, v) ==
    Vertex(H, H.verts[v].position, H.verts[v].normal, H.verts[v].uv)

\* the next element r.ref, made in heap r.H, of an array being filled
AddRef(S, r) == [H |-> r.H, refs |-> Append(S.refs, r.ref)]

\* the array object holding the elements m.refs
ArrayOf(m) == NewArray(m.H, m.refs)

\* vertices.map(v => v.clone()): the new Vertex objects, in order
MapVertexClone(H, vs) ==
    For([H |-> H, refs |-> <<>>], 1, Len(vs),
        LAMBDA S, i : AddRef(S, Vertex_clone(S.H, vs[i])))

\* a plane with the right normal, but always through the origin
calculatePlaneThroughOrigin(H, vertices) ==
    LET vs == H.arrs[vertices]
        p0 == H.verts[vs[1]].position
        normal == normalize(cross(sub(H.verts[vs[2]].position, p0),
                                  sub(H.verts[vs[3]].position, p0)))
    IN  [H |-> [H EXCEPT !.vecs = Append(@, normal),
                         !.planes = Append(@, [normal |-> Len(H.vecs) + 1,
                                               w |-> 0])],
         ref |-> Len(H.planes) + 1]

\* Polygon.calculatePlane: a new {normal, w} object with a new Vec3 normal
calculatePlane(H, vertices) ==
    LET vs == H.arrs[vertices]
        p0 == H.verts[vs[1]].position
        v1 == sub(H.verts[vs[2]].position, p0)
        v2 == sub(H.verts[vs[3]].position, p0)
        normal == normalize(cross(v1, v2))
        w == dot(normal, p0)
    IN  [H |-> [H EXCEPT !.vecs = Append(@, normal),
                         !.planes = Append(@, [normal |-> Len(H.vecs) + 1,
                                               w |-> w])],
         ref |-> Len(H.planes) + 1]

\* the Polygon object with fields this.vertices and this.plane
WithPlane(vertices, r) ==
    [H |-> r.H, ref |-> [vertices |-> vertices, plane |-> r.ref]]

\* class Polygon, constructor: keeps the array it is given, derives the plane
Polygon(H, vertices) == WithPlane(vertices, calculatePlane(H, vertices))

\* new Polygon(arr) for the array object arr.ref of heap arr.H
PolygonOf(arr) == Polygon(arr.H, arr.ref)

Polygon_clone(H, p) ==
    PolygonOf(ArrayOf(MapVertexClone(H, H.arrs[p.vertices])))

\* Array.prototype.reverse: the elements, last first
Reverse(s) == For(<<>>, 1, Len(s), LAMBDA r, i : <<s[i]>> \o r)

\* this.vertices.forEach(v => v.normal.mul(-1))
NegateVertexNormals(H, vertices) ==
    For(H, 1, Len(H.arrs[vertices]),
        LAMBDA S, i : [S EXCEPT !.verts[S.arrs[vertices][i]].normal = mul(@, -1)])

\* plane.normal.mul(-1); plane.w = -plane.w   (on the plane object `pl`)
NegatePlane(H, pl) ==
    LET H1 == [H EXCEPT !.vecs[H.planes[pl].normal] = mul(@, -1)]
    IN  [H1 EXCEPT !.planes[pl].w = -@]

\* a flip that leaves the plane as it is
Polygon_flipKeepingPlane(H, p) ==
    NegateVertexNormals([H EXCEPT !.arrs[p.vertices] = Reverse(@)], p.vertices)

Polygon_flip(H, p) ==
    LET H1 == [H EXCEPT !.arrs[p.vertices] = Reverse(@)]
        H2 == NegateVertexNormals(H1, p.vertices)
    IN  NegatePlane(H2, p.plane)

\* interpolateVertex(v1, v2, t) with t = tn / td
interpolateVertex(H, v1, v2, tn, td) ==
    LET a == H.verts[v1]
        b == H.verts[v2]
        lerp(x, y) == Quot(x * (td - tn) + y * tn, td)
        pos == <<lerp(a.position[1], b.position[1]),
                 lerp(a.position[2], b.position[2]),
                 lerp(a.position[3], b.position[3])>>
        normal == <<lerp(a.normal[1], b.normal[1]),
                    lerp(a.normal[2], b.normal[2]),
                    lerp(a.normal[3], b.normal[3])>>
        uv == <<lerp(a.uv[1], b.uv[1]), lerp(a.uv[2], b.uv[2])>>
    IN  Vertex(H, pos, normal, uv)

---------------------------------------------------------------------------
(* class BSPNode.  A node is a record; an absent plane or child is NULL   *)
(* and a present one is Some(x).  node.plane holds a reference to a plane *)
(* object of the heap, which may be the plane object of a polygon.        *)

\* constructor with polygons = null
EmptyNode == [plane |-> NULL, front |-> NULL, back |-> NULL, polygons |-> <<>>]

\* list.push(polygon) on the list named `name` of the lists `L`
Push(L, name, polygon) == [L EXCEPT ![name] = Append(@, polygon)]

\* a classification that takes the side below the plane for FRONT
ClassifyReversed(t) ==
    IF t * EPSILON.den < -EPSILON.num THEN FRONT
    ELSE IF t * EPSILON.den > EPSILON.num THEN BACK
    ELSE COPLANAR

\* the per-vertex classification of splitPolygon
Classify(t) ==
    IF t * EPSILON.den < -EPSILON.num THEN BACK
    ELSE IF t * EPSILON.den > EPSILON.num THEN FRONT
    ELSE COPLANAR

RECURSIVE OrAll(_, _)
OrAll(types, i) ==
    IF i > Len(types) THEN 0 ELSE BitOr(types[i], OrAll(types, i + 1))

\* if (ti !== BACK) f.push(vi)
PushFront(S, ti, vi) == IF ti # BACK THEN [S EXCEPT !.f = Append(@, vi)] ELSE S

\* b.push(c) for the vertex c.ref made in heap c.H
PushMade(S, c) == [S EXCEPT !.H = c.H, !.b = Append(@, c.ref)]

\* if (ti !== FRONT) b.push(ti !== BACK ? vi.clone() : vi)
PushBack(S, ti, vi) ==
    IF ti = FRONT THEN S
    ELSE IF ti # BACK THEN PushMade(S, Vertex_clone(S.H, vi))
    ELSE [S EXCEPT !.b = Append(@, vi)]

\* t = (w - normal.dot(vi.position)) / normal.dot(vj.position - vi.position);
\* v = interpolateVertex(vi, vj, t)
Crossing(H, normal, w, vi, vj) ==
    interpolateVertex(H, vi, vj,
        w - dot(normal, H.verts[vi].position),
        dot(normal, sub(H.verts[vj].position, H.verts[vi].position)))

\* f.push(v); b.push(v.clone())
PushCrossing(S, v) ==
    PushMade([S EXCEPT !.f = Append(@, v.ref)], Vertex_clone(v.H, v.ref))

\* a split that never makes a crossing vertex
SpanCrossNever(S, ti, tj, normal, w, vi, vj) == S

\* if ((ti | tj) === SPANNING) { ... }
SpanCross(S, ti, tj, normal, w, vi, vj) ==
    IF BitOr(ti, tj) = SPANNING
    THEN PushCrossing(S, Crossing(S.H, normal, w, vi, vj))
    ELSE S

\* one iteration of the SPANNING loop, for the edge (i, j) of the polygon;
\* S.f and S.b are the local arrays f and b
SpanStep(S, i, j, normal, w, vs, types) ==
    SpanCross(PushBack(PushFront(S, types[i], vs[i]), types[i], vs[i]),
              types[i], types[j], normal, w, vs[i], vs[j])

\* list.push(new Polygon(vs)) when vs.length >= 3
PushPolygon(S, name, p) == [H |-> p.H, L |-> Push(S.L, name, p.ref)]

EmitIf(S, vs, name) ==
    IF Len(vs) >= 3
    THEN PushPolygon(S, name, PolygonOf(NewArray(S.H, vs)))
    ELSE S

\* the end of the SPANNING case: the front polygon, then the back polygon
Emit(s, L, front, back) ==
    EmitIf(EmitIf([H |-> s.H, L |-> L], s.f, front), s.b, back)

\* BSPNode.splitPolygon against the plane object `plane`; the four list
\* parameters are names of lists in L, so that the caller's aliasing of
\* them (build passes this.polygons twice) is kept
splitPolygon(H, plane, polygon, L, coplanarFront, coplanarBack, front, back) ==
    LET normal == H.vecs[H.planes[plane].normal]
        w == H.planes[plane].w
        vs == H.arrs[polygon.vertices]
        types == [i \in 1..Len(vs) |->
                     Classify(dot(normal, H.verts[vs[i]].position) - w)]
        type == OrAll(types, 1)
    IN  CASE type = COPLANAR ->
               [H |-> H,
                L |-> Push(L,
                           IF dot(normal,
                                  H.vecs[H.planes[polygon.plane].normal]) > 0
                           THEN coplanarFront ELSE coplanarBack,
                           polygon)]
          [] type = FRONT -> [H |-> H, L |-> Push(L, front, polygon)]
          [] type = BACK -> [H |-> H, L |-> Push(L, back, polygon)]
          [] type = SPANNING ->
               Emit(For([H |-> H, f |-> <<>>, b |-> <<>>], 1, Len(vs),
                        LAMBDA S, i : SpanStep(S, i, (i % Len(vs)) + 1,
                                               normal, w, vs, types)),
                    L, front, back)

\* for (const poly of polygons) this.splitPolygon(poly, ...)
SplitEach(H, plane, polygons, L, coplanarFront, coplanarBack, front, back) ==
    For([H |-> H, L |-> L], 1, Len(polygons),
        LAMBDA S, i : splitPolygon(S.H, plane, polygons[i], S.L,
                                   coplanarFront, coplanarBack, front, back))

\* for (const poly of polygons) poly.flip()
FlipEach(H, polygons) ==
    For(H, 1, Len(polygons), LAMBDA S, i : Polygon_flip(S, polygons[i]))

\* an invert whose swap has no temp: this.front = this.back; this.back =
\* this.front
RECURSIVE invertWithoutTemp(_, _)
invertWithoutTemp(H, node) ==
    Then(FlipEach(H, node.polygons), LAMBDA H1 :
    Then(IF node.plane # NULL THEN NegatePlane(H1, node.plane[1]) ELSE H1,
        LAMBDA H2 :
    Then(IF node.front # NULL THEN invertWithoutTemp(H2, node.front[1])
        ELSE [H |-> H2, node |-> EmptyNode], LAMBDA fr :
    Then(IF node.back # NULL THEN invertWithoutTemp(fr.H, node.back[1])
        ELSE [H |-> fr.H, node |-> EmptyNode], LAMBDA bk :
    [H |-> bk.H,
     node |-> [node EXCEPT
                  !.front = IF node.back # NULL THEN Some(bk.node) ELSE NULL,
                  !.back = IF node.back # NULL THEN Some(bk.node) ELSE NULL]]))))

RECURSIVE invert(_, _)
invert(H, node) ==
    Then(FlipEach(H, node.polygons), LAMBDA H1 :
    Then(IF node.plane # NULL THEN NegatePlane(H1, node.plane[1]) ELSE H1,
        LAMBDA H2 :
    Then(IF node.front # NULL THEN invert(H2, node.front[1])
        ELSE [H |-> H2, node |-> EmptyNode], LAMBDA fr :
    Then(IF node.back # NULL THEN invert(fr.H, node.back[1])
        ELSE [H |-> fr.H, node |-> EmptyNode], LAMBDA bk :
    [H |-> bk.H,
     node |-> [node EXCEPT
                  !.front = IF node.back # NULL THEN Some(bk.node) ELSE NULL,
                  !.back = IF node.front # NULL THEN Some(fr.node) ELSE NULL]]))))

\* a clipPolygons that drops what ends on a side without a child
RECURSIVE clipPolygonsDiscarding(_, _, _)
clipPolygonsDiscarding(H, node, polygons) ==
    IF node.plane = NULL THEN [H |-> H, polygons |-> polygons]
    ELSE
      Then(SplitEach(H, node.plane[1], polygons,
                    [front |-> <<>>, back |-> <<>>],
                    "front", "back", "front", "back"), LAMBDA s :
      Then(IF node.front # NULL
          THEN clipPolygonsDiscarding(s.H, node.front[1], s.L.front)
          ELSE [H |-> s.H, polygons |-> <<>>], LAMBDA fr :
      Then(IF node.back # NULL
          THEN clipPolygonsDiscarding(fr.H, node.back[1], s.L.back)
          ELSE [H |-> fr.H, polygons |-> <<>>], LAMBDA bk :
      [H |-> bk.H, polygons |-> fr.polygons \o bk.polygons])))

RECURSIVE clipPolygons(_, _, _)
clipPolygons(H, node, polygons) ==
    IF node.plane = NULL THEN [H |-> H, polygons |-> polygons]
    ELSE
      Then(SplitEach(H, node.plane[1], polygons,
                    [front |-> <<>>, back |-> <<>>],
                    "front", "back", "front", "back"), LAMBDA s :
      Then(IF node.front # NULL
          THEN clipPolygons(s.H, node.front[1], s.L.front)
          ELSE [H |-> s.H, polygons |-> s.L.front], LAMBDA fr :
      Then(IF node.back # NULL
          THEN clipPolygons(fr.H, node.back[1], s.L.back)
          ELSE [H |-> fr.H, polygons |-> s.L.back], LAMBDA bk :
      [H |-> bk.H, polygons |-> fr.polygons \o bk.polygons])))

\* a clipTo that visits the back child before the front child
RECURSIVE clipToBackFirst(_, _, _)
clipToBackFirst(H, node, bsp) ==
    Then(clipPolygons(H, bsp, node.polygons), LAMBDA own :
    Then(IF node.back # NULL THEN clipToBackFirst(own.H, node.back[1], bsp)
        ELSE [H |-> own.H, node |-> EmptyNode], LAMBDA bk :
    Then(IF node.front # NULL THEN clipToBackFirst(bk.H, node.front[1], bsp)
        ELSE [H |-> bk.H, node |-> EmptyNode], LAMBDA fr :
    [H |-> fr.H,
     node |-> [node EXCEPT
                  !.polygons = own.polygons,
                  !.front = IF node.front # NULL THEN Some(fr.node) ELSE NULL,
                  !.back = IF node.back # NULL THEN Some(bk.node) ELSE NULL]])))

RECURSIVE clipTo(_, _, _)
clipTo(H, node, bsp) ==
    Then(clipPolygons(H, bsp, node.polygons), LAMBDA own :
    Then(IF node.front # NULL THEN clipTo(own.H, node.front[1], bsp)
        ELSE [H |-> own.H, node |-> EmptyNode], LAMBDA fr :
    Then(IF node.back # NULL THEN clipTo(fr.H, node.back[1], bsp)
        ELSE [H |-> fr.H, node |-> EmptyNode], LAMBDA bk :
    [H |-> bk.H,
     node |-> [node EXCEPT
                  !.polygons = own.polygons,
                  !.front = IF node.front # NULL THEN Some(fr.node) ELSE NULL,
                  !.back = IF node.back # NULL THEN Some(bk.node) ELSE NULL]])))

RECURSIVE allPolygons(_)
allPolygons(node) ==
    node.polygons
    \o (IF node.front # NULL THEN allPolygons(node.front[1]) ELSE <<>>)
    \o (IF node.back # NULL THEN allPolygons(node.back[1]) ELSE <<>>)

\* a build that keeps the polygons in front of the plane in the node's
\* own list
PartitionKeepingFront(H, plane, polygons, own) ==
    SplitEach(H, plane, polygons,
              [own |-> own, front |-> <<>>, back |-> <<>>],
              "own", "own", "own", "back")

\* for (const poly of polygons)
\*     this.splitPolygon(poly, this.polygons, this.polygons, front, back)
Partition(H, plane, polygons, own) ==
    SplitEach(H, plane, polygons,
              [own |-> own, front |-> <<>>, back |-> <<>>],
              "own", "own", "front", "back")

\* a guard that recurses whenever the side is not empty
RecursesIfNotEmpty(list, polygons) == Len(list) # 0

\* if (list.length) { ...; if (list.length !== polygons.length) child.build(list) }
Recurses(list, polygons) == Len(list) # 0 /\ Len(list) # Len(polygons)

\* the lengths of the lists given to a call of build and, along every chain
\* of recursive calls it made, to the calls below it
PathsFrom(n, below) == {<<n>>} \cup {<<n>> \o q : q \in below}

\* BSPNode.build with the constant 1000 of its first line as `ceiling`;
\* the result carries the node as it is after the call
RECURSIVE buildUnder(_, _, _, _)
buildUnder(ceiling, H, node, polygons) ==
    IF Len(polygons) = 0 \/ Len(node.polygons) > ceiling
    THEN [H |-> H, node |-> node, paths |-> {<<Len(polygons)>>}]
    ELSE
      LET plane == IF node.plane = NULL THEN polygons[1].plane
                   ELSE node.plane[1]
      IN
      Then(Partition(H, plane, polygons, node.polygons), LAMBDA s :
      LET front == s.L.front
          back == s.L.back
          f0 == IF node.front # NULL THEN node.front[1] ELSE EmptyNode
          b0 == IF node.back # NULL THEN node.back[1] ELSE EmptyNode
      IN
      Then(IF Recurses(front, polygons)
          THEN buildUnder(ceiling, s.H, f0, front)
          ELSE [H |-> s.H, node |-> f0, paths |-> {}], LAMBDA fr :
      Then(IF Recurses(back, polygons)
          THEN buildUnder(ceiling, fr.H, b0, back)
          ELSE [H |-> fr.H, node |-> b0, paths |-> {}], LAMBDA bk :
      [H |-> bk.H,
       node |-> [plane |-> Some(plane),
                 front |-> IF Len(front) # 0 THEN Some(fr.node)
                           ELSE node.front,
                 back |-> IF Len(back) # 0 THEN Some(bk.node)
                          ELSE node.back,
                 polygons |-> s.L.own],
       paths |-> PathsFrom(Len(polygons), fr.paths \cup bk.paths)])))

build(H, node, polygons) == buildUnder(CEILING, H, node, polygons)

\* new BSPNode(polygons)
BSPNode(H, polygons) == build(H, EmptyNode, polygons)

---------------------------------------------------------------------------
(* class CSG.  A CSG value is its polygons array.                          *)

fromPolygons(polygons) == polygons

\* the next polygon r.ref, made in heap r.H, of a polygons array being filled
AddPolygon(S, r) == [H |-> r.H, polygons |-> Append(S.polygons, r.ref)]

\* a clone that copies the array but shares the Polygon objects
CSG_cloneShallow(H, csg) == [H |-> H, polygons |-> csg]

\* this.polygons.map(p => p.clone())
CSG_clone(H, csg) ==
    For([H |-> H, polygons |-> <<>>], 1, Len(csg),
        LAMBDA S, i : AddPolygon(S, Polygon_clone(S.H, csg[i])))

\* csg.polygons.forEach(p => p.flip()); return csg
FlipAll(c) == [H |-> FlipEach(c.H, c.polygons), polygons |-> c.polygons]

inverse(H, csg) == FlipAll(CSG_clone(H, csg))

\* the bodies, with intersect inverting both trees first and following the
\* clip order of union
RecipeInvertingBoth(o) ==
    CASE o = "union" ->
           <<"a = new BSPNode", "b = new BSPNode",
             "a.clipTo(b)", "b.clipTo(a)", "b.invert()", "b.clipTo(a)",
             "b.invert()", "a.build(b.allPolygons())", "return">>
      [] o = "subtract" ->
           <<"a = new BSPNode", "b = new BSPNode",
             "a.invert()", "a.clipTo(b)", "b.clipTo(a)", "b.invert()",
             "b.clipTo(a)", "b.invert()", "a.build(b.allPolygons())",
             "a.invert()", "return">>
      [] o = "intersect" ->
           <<"a = new BSPNode", "b = new BSPNode",
             "a.invert()", "b.invert()", "b.clipTo(a)", "a.clipTo(b)",
             "b.invert()", "b.clipTo(a)", "b.invert()",
             "a.build(b.allPolygons())", "a.invert()", "return">>

\* The bodies of union, subtract and intersect, statement by statement.
Recipe(o) ==
    CASE o = "union" ->
           <<"a = new BSPNode", "b = new BSPNode",
             "a.clipTo(b)", "b.clipTo(a)", "b.invert()", "b.clipTo(a)",
             "b.invert()", "a.build(b.allPolygons())", "return">>
      [] o = "subtract" ->
           <<"a = new BSPNode", "b = new BSPNode",
             "a.invert()", "a.clipTo(b)", "b.clipTo(a)", "b.invert()",
             "b.clipTo(a)", "b.invert()", "a.build(b.allPolygons())",
             "a.invert()", "return">>
      [] o = "intersect" ->
           <<"a = new BSPNode", "b = new BSPNode",
             "a.invert()", "b.clipTo(a)", "b.invert()", "a.clipTo(b)",
             "b.clipTo(a)", "a.build(b.allPolygons())", "a.invert()",
             "return">>

BinaryOps == {"union", "subtract", "intersect"}

---------------------------------------------------------------------------
(* Input meshes, built with the engine's own constructors.                 *)

\* new Polygon(points.map((p, i) => new Vertex(p, normal, uvs[i])))
MakeRing(H, points, normal, uvs) ==
    PolygonOf(ArrayOf(
        For([H |-> H, refs |-> <<>>], 1, Len(points),
            LAMBDA S, i : AddRef(S, Vertex(S.H, points[i], normal, uvs[i])))))

QuadUVs == <<<<0, 0>>, <<2, 0>>, <<2, 2>>, <<0, 2>>>>

\* the six outward-facing quads of the axis-aligned box lo..hi
BoxFaces(lo, hi) ==
    LET x0 == lo[1] y0 == lo[2] z0 == lo[3]
        x1 == hi[1] y1 == hi[2] z1 == hi[3]
    IN  << [n |-> <<-1, 0, 0>>,
            ring |-> <<<<x0,y0,z0>>, <<x0,y0,z1>>, <<x0,y1,z1>>, <<x0,y1,z0>>>>],
           [n |-> <<1, 0, 0>>,
            ring |-> <<<<x1,y0,z0>>, <<x1,y1,z0>>, <<x1,y1,z1>>, <<x1,y0,z1>>>>],
           [n |-> <<0, -1, 0>>,
            ring |-> <<<<x0,y0,z0>>, <<x1,y0,z0>>, <<x1,y0,z1>>, <<x0,y0,z1>>>>],
           [n |-> <<0, 1, 0>>,
            ring |-> <<<<x0,y1,z0>>, <<x0,y1,z1>>, <<x1,y1,z1>>, <<x1,y1,z0>>>>],
           [n |-> <<0, 0, -1>>,
            ring |-> <<<<x0,y0,z0>>, <<x0,y1,z0>>, <<x1,y1,z0>>, <<x1,y0,z0>>>>],
           [n |-> <<0, 0, 1>>,
            ring |-> <<<<x0,y0,z1>>, <<x1,y0,z1>>, <<x1,y1,z1>>, <<x0,y1,z1>>>>] >>

MakeFaces(H, faces) ==
    For([H |-> H, polygons |-> <<>>], 1, Len(faces),
        LAMBDA S, i : AddPolygon(S, MakeRing(S.H, faces[i].ring, faces[i].n,
                                             QuadUVs)))

\* the unit cube (edge 1 = 2 grid units) centred at c
Cube(H, c) ==
    MakeFaces(H, BoxFaces(sub(c, <<1, 1, 1>>), add(c, <<1, 1, 1>>)))

\* a planar, simple, counter-clockwise L-shaped hexagon in the plane z = 0
EllRing == <<<<0,0,0>>, <<2,0,0>>, <<2,1,0>>, <<1,1,0>>, <<1,2,0>>, <<0,2,0>>>>

Rotate(s, k) == [i \in 1..Len(s) |-> s[((i - 1 + k) % Len(s)) + 1]]

\* the one-polygon CSG value holding the hexagon, its ring starting at
\* vertex `start`
Ell(H, start) ==
    AddPolygon([H |-> H, polygons |-> <<>>],
               MakeRing(H, Rotate(EllRing, start),
                        <<0, 0, 1>>, [i \in 1..6 |-> <<0, 0>>]))

---------------------------------------------------------------------------
(* The program: a caller holding CSG values and invoking the four public  *)
(* operations on them.                                                     *)

\* cube centres range over the axis shifts -MaxShift..MaxShift (grid units)
MaxShift == 3

Centers ==
    {<<k, 0, 0>> : k \in -MaxShift..MaxShift}
    \cup {<<0, k, 0>> : k \in -MaxShift..MaxShift}
    \cup {<<0, 0, k>> : k \in -MaxShift..MaxShift}

Shapes ==
    {[kind |-> "cube", at |-> c] : c \in Centers}
    \cup {[kind |-> "ell", at |-> <<k, 0, 0>>] : k \in 0..5}

Make(H, shape) ==
    IF shape.kind = "cube" THEN Cube(H, shape.at) ELSE Ell(H, shape.at[1])

VARIABLES
    heap,     \* the JavaScript heap
    csgs,     \* the CSG values the caller holds: csgs[1] = A, csgs[2] = B, ...
    shapes,   \* what each held value was made as
    base,     \* heap sizes up to which objects are reachable from csgs
    pc,       \* 0 when no operation runs, else the statement to run next
    op,       \* the operation running or last run
    lhs,      \* index of `this`
    rhs,      \* index of the argument `csg`
    a,        \* local a of the running operation
    b,        \* local b of the running operation
    result    \* value returned by the last completed operation

vars == <<heap, csgs, shapes, base, pc, op, lhs, rhs, a, b, result>>

Sizes(H) == [verts |-> Len(H.verts), arrs |-> Len(H.arrs),
             planes |-> Len(H.planes), vecs |-> Len(H.vecs)]

\* garbage collection of everything allocated by an earlier call
Collect(H, n) ==
    [verts |-> SubSeq(H.verts, 1, n.verts), arrs |-> SubSeq(H.arrs, 1, n.arrs),
     planes |-> SubSeq(H.planes, 1, n.planes), vecs |-> SubSeq(H.vecs, 1, n.vecs)]

Init ==
    \E sb \in Shapes :
        \E ma \in {Make(EmptyHeap, [kind |-> "cube", at |-> <<0, 0, 0>>])} :
        \E mb \in {Make(ma.H, sb)} :
            /\ heap = mb.H
            /\ csgs = <<ma.polygons, mb.polygons>>
            /\ shapes = <<[kind |-> "cube", at |-> <<0, 0, 0>>], sb>>
            /\ base = Sizes(mb.H)
            /\ pc = 0
            /\ op = "none"
            /\ lhs = 0
            /\ rhs = 0
            /\ a = NULL
            /\ b = NULL
            /\ result = NULL

Instr == IF pc = 0 THEN "idle" ELSE Recipe(op)[pc]

\* the caller invokes csgs[i].o(csgs[j])
Call(o, i, j) ==
    /\ pc = 0
    /\ heap' = Collect(heap, base)
    /\ op' = o
    /\ lhs' = i
    /\ rhs' = j
    /\ pc' = 1
    /\ a' = NULL
    /\ b' = NULL
    /\ result' = NULL
    /\ UNCHANGED <<csgs, shapes, base>>

NewA ==
    /\ Instr = "a = new BSPNode"
    /\ \E c \in {CSG_clone(heap, csgs[lhs])} :
       \E t \in {BSPNode(c.H, c.polygons)} :
           /\ heap' = t.H
           /\ a' = Some(t.node)
    /\ pc' = pc + 1
    /\ UNCHANGED <<csgs, shapes, base, op, lhs, rhs, b, result>>

NewB ==
    /\ Instr = "b = new BSPNode"
    /\ \E c \in {CSG_clone(heap, csgs[rhs])} :
       \E t \in {BSPNode(c.H, c.polygons)} :
           /\ heap' = t.H
           /\ b' = Some(t.node)
    /\ pc' = pc + 1
    /\ UNCHANGED <<csgs, shapes, base, op, lhs, rhs, a, result>>

InvertA ==
    /\ Instr = "a.invert()"
    /\ \E r \in {invert(heap, a[1])} :
           /\ heap' = r.H
           /\ a' = Some(r.node)
    /\ pc' = pc + 1
    /\ UNCHANGED <<csgs, shapes, base, op, lhs, rhs, b, result>>

InvertB ==
    /\ Instr = "b.invert()"
    /\ \E r \in {invert(heap, b[1])} :
           /\ heap' = r.H
           /\ b' = Some(r.node)
    /\ pc' = pc + 1
    /\ UNCHANGED <<csgs, shapes, base, op, lhs, rhs, a, result>>

ClipAToB ==
    /\ Instr = "a.clipTo(b)"
    /\ \E r \in {clipTo(heap, a[1], b[1])} :
           /\ heap' = r.H
           /\ a' = Some(r.node)
    /\ pc' = pc + 1
    /\ UNCHANGED <<csgs, shapes, base, op, lhs, rhs, b, result>>

ClipBToA ==
    /\ Instr = "b.clipTo(a)"
    /\ \E r \in {clipTo(heap, b[1], a[1])} :
           /\ heap' = r.H
           /\ b' = Some(r.node)
    /\ pc' = pc + 1
    /\ UNCHANGED <<csgs, shapes, base, op, lhs, rhs, a, result>>

Merge ==
    /\ Instr = "a.build(b.allPolygons())"
    /\ \E r \in {build(heap, a[1], allPolygons(b[1]))} :
           /\ heap' = r.H
           /\ a' = Some(r.node)
    /\ pc' = pc + 1
    /\ UNCHANGED <<csgs, shapes, base, op, lhs, rhs, b, result>>

Return ==
    /\ Instr = "return"
    /\ result' = Some(fromPolygons(allPolygons(a[1])))
    /\ a' = NULL
    /\ b' = NULL
    /\ pc' = 0
    /\ UNCHANGED <<heap, csgs, shapes, base, op, lhs, rhs>>

\* the caller invokes csgs[i].inverse()
Inverse(i) ==
    /\ pc = 0
    /\ \E r \in {inverse(Collect(heap, base), csgs[i])} :
           /\ heap' = r.H
           /\ result' = Some(r.polygons)
    /\ op' = "inverse"
    /\ lhs' = i
    /\ rhs' = 0
    /\ UNCHANGED <<csgs, shapes, base, pc, a, b>>

\* the operations whose result the caller may keep for further calls
Kept == {"inverse", "union"}

\* the caller keeps the value it just got, next to A and B, as csgs[3]
Keep ==
    /\ pc = 0
    /\ op \in Kept
    /\ result # NULL
    /\ Len(csgs) = 2
    /\ csgs' = Append(csgs, result[1])
    /\ shapes' = Append(shapes, [kind |-> op, of |-> <<lhs, rhs>>])
    /\ base' = Sizes(heap)
    /\ op' = "none"
    /\ result' = NULL
    /\ UNCHANGED <<heap, pc, lhs, rhs, a, b>>

Next ==
    \/ \E o \in BinaryOps : \E i, j \in 1..Len(csgs) : Call(o, i, j)
    \/ NewA
    \/ NewB
    \/ InvertA
    \/ InvertB
    \/ ClipAToB
    \/ ClipBToA
    \/ Merge
    \/ Return
    \/ \E i \in 1..Len(csgs) : Inverse(i)
    \/ Keep

Spec == Init /\ [][Next]_vars

---------------------------------------------------------------------------
(* What a caller can observe of a polygon and of a CSG value.              *)

\* the vertex ring (position, normal, uv in ring order) and the plane
Observe(H, p) ==
    [ring |-> [i \in 1..Len(H.arrs[p.vertices]) |->
                  H.verts[H.arrs[p.vertices][i]]],
     plane |-> [normal |-> H.vecs[H.planes[p.plane].normal],
                w |-> H.planes[p.plane].w]]

ObserveAll(H, csg) == [i \in 1..Len(csg) |-> Observe(H, csg[i])]

Done(o) == pc = 0 /\ op = o /\ result # NULL

IsCube(k) == shapes[k].kind = "cube"

---------------------------------------------------------------------------
\* C1: no step of union, subtract, intersect or inverse changes, in any
\* value the caller holds, a polygon's vertex ring (order, positions,
\* normals, uvs) or its plane, so operands can be reused in later calls.
OperandsUntouched ==
    [][\A k \in 1..Len(csgs) :
          ObserveAll(heap', csgs'[k]) = ObserveAll(heap, csgs[k])]_vars

\* an operation that inverts and clips both trees has run to completion on
\* two distinct operands, one of them kept from an earlier call
OperandsReused ==
    /\ Done("subtract")
    /\ Len(csgs) = 3
    /\ lhs # rhs
    /\ 3 \in {lhs, rhs}

---------------------------------------------------------------------------
\* the face a polygon presents: where its corners are and how its plane
\* is oriented
Face(H, p) ==
    [points |-> {H.verts[H.arrs[p.vertices][i]].position :
                    i \in 1..Len(H.arrs[p.vertices])},
     plane |-> [normal |-> H.vecs[H.planes[p.plane].normal],
                w |-> H.planes[p.plane].w]]

Faces(H, csg) == {Face(H, csg[i]) : i \in 1..Len(csg)}

\* C11: a union never returns the same face twice, and the union of a cube
\* with itself consists of exactly the six faces of that cube.
UnionHasNoDuplicateFaces ==
    Done("union") =>
        /\ Cardinality(Faces(heap, result[1])) = Len(result[1])
        /\ (lhs = rhs /\ IsCube(lhs)) =>
               /\ Len(result[1]) = 6
               /\ Faces(heap, result[1]) = Faces(heap, csgs[lhs])

---------------------------------------------------------------------------
(* CSG.fromGeometry / CSG.fromMesh, and a caller that makes CSG values     *)
(* from meshes.  Mesh indices are zero-based, as in the source.            *)

\* faceVertices.push(new Vertex(vertex, normal, uv))
PushVertex(S, faceVertices, v) ==
    [H |-> [v.H EXCEPT !.arrs[faceVertices] = Append(@, v.ref)],
     polygons |-> S.polygons]

\* for (let i = 0; i < face.vertices.length; i++) { ... }
FaceLoop(S, faceVertices, face, vertices, normals, uvs) ==
    For(S, 1, Len(face.vertices),
        LAMBDA T, i :
            PushVertex(T, faceVertices,
                Vertex(T.H, vertices[face.vertices[i] + 1],
                       IF normals # NULL THEN normals[face.vertices[i] + 1]
                       ELSE NULL,
                       IF uvs # NULL THEN uvs[face.uvs[i] + 1] ELSE NULL)))

\* csg.polygons.push(new Polygon(faceVertices))
PushFace(S, faceVertices) == AddPolygon(S, Polygon(S.H, faceVertices))

\* faceVertices is one array, created before the loop over the faces
fromGeometry(H, vertices, faces, normals, uvs) ==
    Then(NewArray(H, <<>>), LAMBDA fv :
        For([H |-> fv.H, polygons |-> <<>>], 1, Len(faces),
            LAMBDA S, f :
                PushFace(FaceLoop(S, fv.ref, faces[f], vertices, normals, uvs),
                         fv.ref)))

fromMesh(H, mesh) ==
    fromGeometry(H, mesh.vertices, mesh.faces, mesh.normals, mesh.uvs)

\* corner k (0..7) of the unit cube centred at c
Corner(c, k) ==
    add(c, <<2 * (k \div 4) - 1, 2 * ((k \div 2) % 2) - 1, 2 * (k % 2) - 1>>)

\* the six quads of a cube as index rings, counter-clockwise seen from outside
CubeQuads ==
    <<<<0, 1, 3, 2>>, <<4, 6, 7, 5>>, <<0, 4, 5, 1>>,
      <<2, 3, 7, 6>>, <<0, 2, 6, 4>>, <<1, 5, 7, 3>>>>

\* a mesh of the first n faces of the cube centred at c, with or without
\* per-vertex normals and uvs
CubeMesh(c, n, plain) ==
    [vertices |-> [k \in 1..8 |-> Corner(c, k - 1)],
     faces |-> [f \in 1..n |-> [vertices |-> CubeQuads[f],
                                uvs |-> <<0, 1, 2, 3>>]],
     normals |-> IF plain THEN NULL ELSE [k \in 1..8 |-> <<0, 0, 1>>],
     uvs |-> IF plain THEN NULL ELSE QuadUVs]

Meshes ==
    {CubeMesh(c, n, plain) : c \in Centers, n \in {1, 2, 6}, plain \in BOOLEAN}

\* how many CSG values the caller makes from meshes
MaxMeshes == 2

InitGeometry ==
    /\ heap = EmptyHeap
    /\ csgs = <<>>
    /\ shapes = <<>>
    /\ base = Sizes(EmptyHeap)
    /\ pc = 0
    /\ op = "none"
    /\ lhs = 0
    /\ rhs = 0
    /\ a = NULL
    /\ b = NULL
    /\ result = NULL

\* the caller invokes CSG.fromMesh(mesh) and keeps the value
FromMesh(mesh) ==
    /\ Len(csgs) < MaxMeshes
    /\ \E r \in {fromMesh(heap, mesh)} :
           /\ heap' = r.H
           /\ csgs' = Append(csgs, r.polygons)
           /\ base' = Sizes(r.H)
    /\ shapes' = Append(shapes, [kind |-> "mesh", mesh |-> mesh])
    /\ op' = "fromMesh"
    /\ UNCHANGED <<pc, lhs, rhs, a, b, result>>

NextGeometry == \E mesh \in Meshes : FromMesh(mesh)

SpecGeometry == InitGeometry /\ [][NextGeometry]_vars

\* the positions a face of a mesh names, in the face's order
FacePoints(mesh, f) ==
    [i \in 1..Len(mesh.faces[f].vertices) |->
        mesh.vertices[mesh.faces[f].vertices[i] + 1]]

\* the positions of a polygon's vertices, in ring order
RingPoints(H, p) ==
    [i \in 1..Len(H.arrs[p.vertices]) |->
        H.verts[H.arrs[p.vertices][i]].position]

\* the plane calculatePlane derives from the first three of the points
PlaneThrough(points) ==
    [normal |-> normalize(cross(sub(points[2], points[1]),
                                sub(points[3], points[1]))),
     w |-> dot(normalize(cross(sub(points[2], points[1]),
                               sub(points[3], points[1]))), points[1])]

\* C12: for a mesh with at least two faces, fromGeometry returns one polygon
\* per face, whose ring is exactly that face's vertices and whose plane is
\* the one through that face's first three vertices.
OnePolygonPerFace ==
    \A k \in 1..Len(csgs) :
        (shapes[k].kind = "mesh" /\ Len(shapes[k].mesh.faces) >= 2) =>
            /\ Len(csgs[k]) = Len(shapes[k].mesh.faces)
            /\ \A f \in 1..Len(csgs[k]) :
                   /\ RingPoints(heap, csgs[k][f])
                          = FacePoints(shapes[k].mesh, f)
                   /\ Observe(heap, csgs[k][f]).plane
                          = PlaneThrough(FacePoints(shapes[k].mesh, f))

---------------------------------------------------------------------------
(* BSPNode.splitPolygon on its own: a node whose plane is the plane of one *)
(* polygon splits another polygon into four fresh lists.                   *)

\* convex rings that are not cube faces, and the concave hexagon
Diamond == <<<<0, -2, 0>>, <<2, 0, 0>>, <<0, 2, 0>>, <<-2, 0, 0>>>>
Triangle == <<<<-2, -2, 0>>, <<2, -2, 0>>, <<-2, 2, 0>>>>
\* a rectangle with one more vertex in the middle of its first edge
Notched == <<<<-2, -2, 0>>, <<0, -2, 0>>, <<2, -2, 0>>, <<2, 2, 0>>, <<-2, 2, 0>>>>
RingUVs == <<<<0, 0>>, <<4, 0>>, <<4, 4>>, <<0, 4>>, <<0, 0>>, <<4, 0>>>>

CubeRings ==
    {[ring |-> BoxFaces(sub(c, <<1, 1, 1>>), add(c, <<1, 1, 1>>))[f].ring,
      n |-> BoxFaces(sub(c, <<1, 1, 1>>), add(c, <<1, 1, 1>>))[f].n,
      uvs |-> QuadUVs] : c \in Centers, f \in 1..6}

\* the polygons that are split
Subjects ==
    CubeRings
    \cup {[ring |-> Rotate(r.ring, 1), n |-> r.n, uvs |-> r.uvs] :
             r \in CubeRings}
    \cup {[ring |-> Rotate(Diamond, k), n |-> <<0, 0, 1>>,
           uvs |-> SubSeq(RingUVs, 1, 4)] : k \in 0..3}
    \cup {[ring |-> Rotate(Triangle, k), n |-> <<0, 0, 1>>,
           uvs |-> SubSeq(RingUVs, 1, 3)] : k \in 0..2}
    \cup {[ring |-> Rotate(EllRing, k), n |-> <<0, 0, 1>>, uvs |-> RingUVs] :
             k \in 0..5}
    \cup {[ring |-> Rotate(Notched, k), n |-> <<0, 0, 1>>,
           uvs |-> SubSeq(RingUVs, 1, 5)] : k \in 0..4}

\* a ring as a Polygon object
MakeSubject(H, r) == MakeRing(H, r.ring, r.n, r.uvs)

\* the node `this` of splitPolygon: its plane is the plane object of a polygon
NodeOn(p) == [EmptyNode EXCEPT !.plane = Some(p.plane)]

\* the polygon being split is csgs[1][1]; the node's plane is that of
\* csgs[2][1], which is another polygon or the same one
StartSplit(s, t) ==
    /\ heap = t.H
    /\ csgs = <<<<s.ref>>, <<t.ref>>>>
    /\ a = Some(NodeOn(t.ref))
    /\ base = Sizes(t.H)
    /\ pc = 0
    /\ op = "none"
    /\ lhs = 0
    /\ rhs = 0
    /\ b = NULL
    /\ result = NULL

InitSplit ==
    \E r \in Subjects :
    \E s \in {MakeSubject(EmptyHeap, r)} :
        \/ /\ shapes = <<[kind |-> "ring", ring |-> r],
                         [kind |-> "ring", ring |-> r]>>
           /\ StartSplit(s, s)
        \/ \E q \in CubeRings :
           \E t \in {MakeSubject(s.H, q)} :
               /\ shapes = <<[kind |-> "ring", ring |-> r],
                             [kind |-> "ring", ring |-> q]>>
               /\ StartSplit(s, t)

\* this.splitPolygon(polygon, coplanarFront, coplanarBack, front, back)
\* with four empty lists
Split ==
    /\ op = "none"
    /\ \E r \in {splitPolygon(heap, a[1].plane[1], csgs[1][1],
                              [coplanarFront |-> <<>>, coplanarBack |-> <<>>,
                               front |-> <<>>, back |-> <<>>],
                              "coplanarFront", "coplanarBack",
                              "front", "back")} :
           /\ heap' = r.H
           /\ result' = Some(r.L)
    /\ op' = "splitPolygon"
    /\ UNCHANGED <<csgs, shapes, base, pc, lhs, rhs, a, b>>

NextSplit == Split

SpecSplit == InitSplit /\ [][NextSplit]_vars

---------------------------------------------------------------------------
\* the side of plane object pl a point lies on, and the sides of the
\* vertices of polygon p
TypeOfPoint(H, pl, x) ==
    Classify(dot(H.vecs[H.planes[pl].normal], x) - H.planes[pl].w)

TypesOf(H, pl, p) ==
    [i \in 1..Len(H.arrs[p.vertices]) |->
        TypeOfPoint(H, pl, H.verts[H.arrs[p.vertices][i]].position)]

SetOf(s) == {s[i] : i \in 1..Len(s)}

\* at least one vertex strictly in front of and one strictly behind pl
Straddles(H, pl, p) ==
    FRONT \in SetOf(TypesOf(H, pl, p)) /\ BACK \in SetOf(TypesOf(H, pl, p))

\* the turn the ring makes at its corner after vertex i
TurnAt(pts, i) ==
    cross(sub(pts[(i % Len(pts)) + 1], pts[i]),
          sub(pts[((i + 1) % Len(pts)) + 1], pts[(i % Len(pts)) + 1]))

\* the ring lies in one plane and encloses an area
Planar(H, p) ==
    /\ \E i \in 1..Len(RingPoints(H, p)) :
           TurnAt(RingPoints(H, p), i) # <<0, 0, 0>>
    /\ \A i, j \in 1..Len(RingPoints(H, p)) :
           cross(TurnAt(RingPoints(H, p), i), TurnAt(RingPoints(H, p), j))
               = <<0, 0, 0>>
    /\ \A i, j \in 1..Len(RingPoints(H, p)) :
           dot(TurnAt(RingPoints(H, p), i),
               sub(RingPoints(H, p)[j], RingPoints(H, p)[1])) = 0

\* a planar ring that turns the same way at every corner
Convex(H, p) ==
    /\ Planar(H, p)
    /\ \A i, j \in 1..Len(RingPoints(H, p)) :
           dot(TurnAt(RingPoints(H, p), i), TurnAt(RingPoints(H, p), j)) >= 0

\* the edges (i, i+1) with one end strictly in front and one strictly behind
CrossingEdgesOf(types) ==
    {i \in 1..Len(types) :
        {types[i], types[(i % Len(types)) + 1]} = {FRONT, BACK}}

\* x lies on the line through u and v
OnLine(x, u, v) == cross(sub(x, u), sub(v, u)) = <<0, 0, 0>>

\* a fragment that keeps the original vertices not on side `excl` and has
\* one new on-plane vertex on each crossing edge, and nothing else
FragmentOf(pts, orig, types, excl, H, pl) ==
    /\ Len(pts) >= 3
    /\ \A x \in SetOf(pts) : TypeOfPoint(H, pl, x) # excl
    /\ \A i \in 1..Len(orig) : types[i] # excl => orig[i] \in SetOf(pts)
    /\ Len(pts) = Cardinality({i \in 1..Len(orig) : types[i] # excl})
                  + Cardinality(CrossingEdgesOf(types))
    /\ \A x \in SetOf(pts) \ SetOf(orig) :
           /\ TypeOfPoint(H, pl, x) = COPLANAR
           /\ \E i \in CrossingEdgesOf(types) :
                  OnLine(x, orig[i], orig[(i % Len(orig)) + 1])
    /\ \A i \in CrossingEdgesOf(types) :
           \E x \in SetOf(pts) \ SetOf(orig) :
               OnLine(x, orig[i], orig[(i % Len(orig)) + 1])

\* C13: splitting a convex planar polygon that straddles the plane gives
\* exactly one front and one back polygon of at least three vertices each,
\* no front vertex behind the plane and no back vertex in front of it, and
\* together they hold every original vertex plus one on-plane vertex per
\* crossing edge.
StraddlingSplitRebuildsBoundary ==
    (/\ op = "splitPolygon"
     /\ Convex(heap, csgs[1][1])
     /\ Straddles(heap, a[1].plane[1], csgs[1][1])) =>
        /\ Len(result[1].front) = 1
        /\ Len(result[1].back) = 1
        /\ result[1].coplanarFront = <<>>
        /\ result[1].coplanarBack = <<>>
        /\ FragmentOf(RingPoints(heap, result[1].front[1]),
                      RingPoints(heap, csgs[1][1]),
                      TypesOf(heap, a[1].plane[1], csgs[1][1]),
                      BACK, heap, a[1].plane[1])
        /\ FragmentOf(RingPoints(heap, result[1].back[1]),
                      RingPoints(heap, csgs[1][1]),
                      TypesOf(heap, a[1].plane[1], csgs[1][1]),
                      FRONT, heap, a[1].plane[1])

\* a convex polygon has been split across two of its edges
StraddlingSplitDone ==
    /\ op = "splitPolygon"
    /\ Convex(heap, csgs[1][1])
    /\ Straddles(heap, a[1].plane[1], csgs[1][1])
    /\ Cardinality(CrossingEdgesOf(TypesOf(heap, a[1].plane[1],
                                           csgs[1][1]))) = 2
    /\ Len(result[1].front) = 1
    /\ Len(result[1].back) = 1

---------------------------------------------------------------------------
\* C14: a planar polygon of non-zero area classifies COPLANAR at every
\* vertex against its own plane, so splitPolygon on that plane neither
\* splits it nor puts it on the front or back list.
OwnPlaneIsCoplanar ==
    (/\ op = "splitPolygon"
     /\ a[1].plane[1] = csgs[1][1].plane
     /\ Planar(heap, csgs[1][1])) =>
        /\ SetOf(TypesOf(heap, csgs[1][1].plane, csgs[1][1])) = {COPLANAR}
        /\ result[1].front = <<>>
        /\ result[1].back = <<>>
        /\ result[1].coplanarFront \o result[1].coplanarBack = <<csgs[1][1]>>

\* a polygon whose plane is not through the origin has been classified
\* against its own plane
OwnPlaneSplitDone ==
    /\ op = "splitPolygon"
    /\ a[1].plane[1] = csgs[1][1].plane
    /\ Planar(heap, csgs[1][1])
    /\ heap.planes[csgs[1][1].plane].w # 0
    /\ result[1].coplanarFront = <<csgs[1][1]>>

---------------------------------------------------------------------------
\* the statement that has just been executed
Last == IF pc > 1 THEN Recipe(op)[pc - 1] ELSE "none"

\* sum of the points of a ring: its centroid, times the number of points
SumOf(pts) ==
    For(<<0, 0, 0>>, 1, Len(pts), LAMBDA s, i : add(s, pts[i]))

\* the ring lies in the closed unit cube centred at c, its centroid in the
\* open one
InsideCube(pts, c) ==
    /\ \A x \in SetOf(pts) : \A k \in 1..3 : Abs(x[k] - c[k]) <= 1
    /\ \A k \in 1..3 : Abs(SumOf(pts)[k] - Len(pts) * c[k]) < Len(pts)

\* C15: right after a.clipTo(b), with a and b built from two cubes A and B
\* (and b not inverted), no node of a holds a polygon that lies inside B.
ClipToPrunes ==
    (/\ Last = "a.clipTo(b)"
     /\ op \in {"union", "subtract"}
     /\ IsCube(lhs)
     /\ IsCube(rhs)) =>
        \A p \in SetOf(allPolygons(a[1])) :
            ~InsideCube(RingPoints(heap, p), shapes[rhs].at)

---------------------------------------------------------------------------
\* a node and all the nodes below it
RECURSIVE NodesOf(_)
NodesOf(node) ==
    {node}
    \cup (IF node.front # NULL THEN NodesOf(node.front[1]) ELSE {})
    \cup (IF node.back # NULL THEN NodesOf(node.back[1]) ELSE {})

\* the aggregate type of polygon p against plane object pl
TypeOf(H, pl, p) == OrAll(TypesOf(H, pl, p), 1)

\* normal.dot(polygon.plane.normal) > 0
Agrees(H, pl, p) ==
    dot(H.vecs[H.planes[pl].normal], H.vecs[H.planes[p.plane].normal]) > 0

\* the side of plane pl on which an unsplit polygon p is put by clipPolygons
GoesFront(H, pl, p) ==
    TypeOf(H, pl, p) = FRONT \/ (TypeOf(H, pl, p) = COPLANAR /\ Agrees(H, pl, p))

GoesBack(H, pl, p) ==
    TypeOf(H, pl, p) = BACK \/ (TypeOf(H, pl, p) = COPLANAR /\ ~Agrees(H, pl, p))

\* no plane of the tree below `node` has vertices of p on both of its sides
NeverSpans(H, node, p) ==
    \A m \in NodesOf(node) :
        m.plane # NULL => TypeOf(H, m.plane[1], p) # SPANNING

\* what clipPolygons(polygons) on `node` is said to return
ClipContract(H, node, polygons) ==
    \A r \in {clipPolygons(H, node, polygons)} :
        IF node.plane = NULL THEN r.polygons = polygons
        ELSE
          \A s \in {SplitEach(H, node.plane[1], polygons,
                              [front |-> <<>>, back |-> <<>>],
                              "front", "back", "front", "back")} :
          \A fr \in {IF node.front # NULL
                     THEN clipPolygons(s.H, node.front[1], s.L.front)
                     ELSE [H |-> s.H, polygons |-> s.L.front]} :
          \A bk \in {IF node.back # NULL
                     THEN clipPolygons(fr.H, node.back[1], s.L.back)
                     ELSE [H |-> fr.H, polygons |-> s.L.back]} :
              /\ SelectSeq(s.L.front, LAMBDA q : q \in SetOf(polygons))
                     = SelectSeq(polygons,
                                 LAMBDA q : GoesFront(H, node.plane[1], q))
              /\ SelectSeq(s.L.back, LAMBDA q : q \in SetOf(polygons))
                     = SelectSeq(polygons,
                                 LAMBDA q : GoesBack(H, node.plane[1], q))
              /\ r.polygons = fr.polygons \o bk.polygons
              /\ Len(r.polygons) >= Len(polygons)
              /\ \A q \in SetOf(polygons) :
                     NeverSpans(H, node, q) => q \in SetOf(r.polygons)

\* the tree that is about to clip, and the polygons it is about to be given
Clipper == IF Instr = "a.clipTo(b)" THEN b[1] ELSE a[1]
Clippee == IF Instr = "a.clipTo(b)" THEN a[1].polygons ELSE b[1].polygons

\* C16: clipPolygons on a node without a plane returns its input unchanged;
\* on a node with a plane it partitions the input by that plane (coplanar
\* polygons by agreement of the normals), clips each side through the child
\* on that side if there is one and keeps it unchanged if there is none, and
\* returns front results followed by back results; so every polygon that
\* no plane splits is returned and the output is never shorter.
ClipPolygonsContract ==
    Instr \in {"a.clipTo(b)", "b.clipTo(a)"} =>
        \A node \in NodesOf(Clipper) \cup {EmptyNode} :
            ClipContract(heap, node, Clippee)

\* a clip is about to put polygons on a side whose child is absent
ClipPastAbsentChild ==
    /\ Instr = "b.clipTo(a)"
    /\ Len(Clippee) > 0
    /\ \E node \in NodesOf(Clipper) :
           /\ node.plane # NULL
           /\ node.back = NULL
           /\ \E q \in SetOf(Clippee) : GoesBack(heap, node.plane[1], q)

---------------------------------------------------------------------------
\* what one step does to the two trees of the running operation
InvertsA ==
    \E r \in {invert(heap, a[1])} :
        heap' = r.H /\ a' = Some(r.node) /\ b' = b

InvertsB ==
    \E r \in {invert(heap, b[1])} :
        heap' = r.H /\ b' = Some(r.node) /\ a' = a

ClipsAToB ==
    \E r \in {clipTo(heap, a[1], b[1])} :
        heap' = r.H /\ a' = Some(r.node) /\ b' = b

ClipsBToA ==
    \E r \in {clipTo(heap, b[1], a[1])} :
        heap' = r.H /\ b' = Some(r.node) /\ a' = a

BuildsBIntoA ==
    \E r \in {build(heap, a[1], allPolygons(b[1]))} :
        heap' = r.H /\ a' = Some(r.node) /\ b' = b

Performs(step) ==
    CASE step = "invert a" -> InvertsA
      [] step = "invert b" -> InvertsB
      [] step = "clip a to b" -> ClipsAToB
      [] step = "clip b to a" -> ClipsBToA
      [] step = "build b into a" -> BuildsBIntoA

\* the k-th step on the two trees is taken when pc = k + FirstStep - 1
FirstStep == 3

\* C17: on its two fresh trees intersect performs exactly: invert a, invert
\* b, clip b to a, clip a to b, invert b, clip b to a, invert b, build b's
\* polygons into a, invert a.
IntersectInvertsBothFirst ==
    [][\A k \in 1..9 :
          (op = "intersect" /\ pc = k + FirstStep - 1) =>
              Performs(<<"invert a", "invert b", "clip b to a", "clip a to b",
                         "invert b", "clip b to a", "invert b",
                         "build b into a", "invert a">>[k])]_vars

\* C17, amended: on its two fresh trees intersect performs exactly: invert
\* a, clip b to a, invert b, clip a to b, clip b to a, build b's polygons
\* into a, invert a.
IntersectInvertsAThenClips ==
    [][\A k \in 1..7 :
          (op = "intersect" /\ pc = k + FirstStep - 1) =>
              Performs(<<"invert a", "clip b to a", "invert b", "clip a to b",
                         "clip b to a", "build b into a", "invert a">>[k])]_vars

\* an intersection of two different cubes that had to split faces is done
IntersectDone ==
    /\ Done("intersect")
    /\ IsCube(lhs)
    /\ IsCube(rhs)
    /\ lhs # rhs
    /\ Len(result[1]) > 6

---------------------------------------------------------------------------
\* what a tree shows: at every node the plane's value, the polygons it owns
\* as a caller would observe them, and the two children
RECURSIVE NodeView(_, _)
NodeView(H, node) ==
    [plane |-> IF node.plane # NULL
               THEN Some([normal |-> H.vecs[H.planes[node.plane[1]].normal],
                          w |-> H.planes[node.plane[1]].w])
               ELSE NULL,
     polygons |-> ObserveAll(H, node.polygons),
     front |-> IF node.front # NULL THEN Some(NodeView(H, node.front[1]))
               ELSE NULL,
     back |-> IF node.back # NULL THEN Some(NodeView(H, node.back[1]))
              ELSE NULL]

Negated(plane) == [normal |-> mul(plane.normal, -1), w |-> -plane.w]

\* an observed polygon, flipped once: ring reversed, vertex normals and
\* plane negated
Flipped(o) ==
    [ring |-> Reverse([i \in 1..Len(o.ring) |->
                          [o.ring[i] EXCEPT !.normal = mul(@, -1)]]),
     plane |-> Negated(o.plane)]

\* the view of a tree with every plane negated, every polygon flipped once
\* and the children of every node swapped
RECURSIVE InvertedView(_)
InvertedView(v) ==
    [plane |-> IF v.plane # NULL THEN Some(Negated(v.plane[1])) ELSE NULL,
     polygons |-> [i \in 1..Len(v.polygons) |-> Flipped(v.polygons[i])],
     front |-> IF v.back # NULL THEN Some(InvertedView(v.back[1])) ELSE NULL,
     back |-> IF v.front # NULL THEN Some(InvertedView(v.front[1])) ELSE NULL]

\* C18: a call of invert() leaves every node with the negation of the plane
\* it had, with its children swapped and each of its polygons flipped
\* exactly once.
InvertNegatesEveryNode ==
    [][/\ Instr = "a.invert()" =>
              NodeView(heap', a'[1]) = InvertedView(NodeView(heap, a[1]))
       /\ Instr = "b.invert()" =>
              NodeView(heap', b'[1]) = InvertedView(NodeView(heap, b[1]))]_vars

\* the trees of the running operation
Trees == (IF a # NULL THEN {a[1]} ELSE {}) \cup (IF b # NULL THEN {b[1]} ELSE {})

\* invert() twice in a row on tree t
InvertTwice(H, t) ==
    Then(invert(H, t), LAMBDA r : invert(r.H, r.node))

\* C19: calling invert() twice in a row on any tree an operation has built,
\* clipped, inverted or merged into restores every node's plane, children
\* and polygons (vertex order, vertex normals, plane).
InvertTwiceRestores ==
    \A t \in Trees :
        \A r \in {InvertTwice(heap, t)} :
            NodeView(r.H, r.node) = NodeView(heap, t)

\* a tree that has been merged into, with a node whose plane is the plane
\* object of one of its own polygons, and with front and back children
InvertibleMergedTree ==
    /\ Last = "a.build(b.allPolygons())"
    /\ \E n \in NodesOf(a[1]) :
           /\ n.front # NULL
           /\ n.back # NULL
           /\ n.plane # NULL
           /\ \E q \in SetOf(n.polygons) : q.plane = n.plane[1]

---------------------------------------------------------------------------
\* q covers a part of p: all its vertices are on p's plane and within the
\* extent of p along every axis
PartOf(H, q, p) ==
    \A x \in SetOf(RingPoints(H, q)) :
        /\ dot(H.vecs[H.planes[p.plane].normal], x) = H.planes[p.plane].w
        /\ \A k \in 1..3 :
               /\ \E y \in SetOf(RingPoints(H, p)) : y[k] <= x[k]
               /\ \E y \in SetOf(RingPoints(H, p)) : y[k] >= x[k]

\* p is among the polygons `after`, as itself or as parts of it that were
\* not among `before` and that together reach every vertex of p
PresentIn(H, after, before, p) ==
    \/ p \in after
    \/ \A x \in SetOf(RingPoints(H, p)) :
           \E q \in after \ before :
               PartOf(H, q, p) /\ x \in SetOf(RingPoints(H, q))

\* C20: after a.build(P) every polygon of P is in a.allPolygons(), as the
\* same polygon or as its fragments; the guard that skips the recursion
\* when a side holds as many polygons as the input discards nothing.
BuildLosesNothing ==
    [][Instr = "a.build(b.allPolygons())" =>
          \A p \in SetOf(allPolygons(b[1])) :
              PresentIn(heap', SetOf(allPolygons(a'[1])),
                        SetOf(allPolygons(a[1])), p)]_vars

---------------------------------------------------------------------------
(* The concrete scenarios.  Lengths are in grid units of 0.5: cubeA spans  *)
(* -1..1 on every axis, cubeB, centred at (0.5, 0, 0), spans 0..2 on x.    *)

\* o has just returned for this = cubeA at the origin and csg = the cube
\* centred at `at`
Ran(o, at) ==
    /\ Done(o)
    /\ lhs \in {1, 2}
    /\ rhs \in {1, 2}
    /\ shapes[lhs] = [kind |-> "cube", at |-> <<0, 0, 0>>]
    /\ shapes[rhs] = [kind |-> "cube", at |-> at]

InBox(x, lo, hi) == \A k \in 1..3 : lo[k] <= x[k] /\ x[k] <= hi[k]

\* all the points lie on one of the six sides of the box lo..hi
OnSide(pts, lo, hi) ==
    \E k \in 1..3 :
        \/ \A x \in SetOf(pts) : x[k] = lo[k]
        \/ \A x \in SetOf(pts) : x[k] = hi[k]

\* every polygon has its vertices in the box lo..hi and lies on a side of it
IsBox(H, csg, lo, hi) ==
    \A p \in SetOf(csg) :
        /\ \A x \in SetOf(RingPoints(H, p)) : InBox(x, lo, hi)
        /\ OnSide(RingPoints(H, p), lo, hi)

\* C2: the intersection of cubeA and cubeB is the box 0..1 x -1..1 x -1..1
\* (in units of 0.5): every vertex is in it and every polygon on a side of it.
IntersectIsOverlapBox ==
    Ran("intersect", <<1, 0, 0>>) =>
        /\ result[1] # <<>>
        /\ IsBox(heap, result[1], <<0, -1, -1>>, <<1, 1, 1>>)

\* C3: cubeA minus cubeB is the box -1..0 x -1..1 x -1..1.
SubtractIsRemainderBox ==
    (Ran("subtract", <<1, 0, 0>>) /\ lhs # rhs) =>
        /\ result[1] # <<>>
        /\ IsBox(heap, result[1], <<-1, -1, -1>>, <<0, 1, 1>>)

\* twice the area of a planar ring whose plane is normal to axis k
Area2(pts, k) ==
    Abs(SumOf([i \in 1..Len(pts) |->
                  cross(pts[i], pts[(i % Len(pts)) + 1])])[k])

\* another axis than k, and the third one
AxisAfter(k) == (k % 3) + 1

\* the polygons of csg that lie in the plane x[k] = c
OnPlane(H, csg, k, c) ==
    {p \in SetOf(csg) : \A x \in SetOf(RingPoints(H, p)) : x[k] = c}

\* twice the area the polygons in `ps` (all normal to axis k) have together
Area2Of(H, ps, k) ==
    SumOf([i \in 1..Len(ps) |-> <<Area2(RingPoints(H, ps[i]), k), 0, 0>>])[1]

\* the polygons on the side x[k] = c of the box lo..hi cover it completely
SideCovered(H, csg, k, c, lo, hi) ==
    Area2Of(H, SelectSeq(csg, LAMBDA p : p \in OnPlane(H, csg, k, c)), k)
        >= 2 * (hi[AxisAfter(k)] - lo[AxisAfter(k)])
             * (hi[AxisAfter(AxisAfter(k))] - lo[AxisAfter(AxisAfter(k))])

\* C4: the union of cubeA and cubeB is one closed mesh around the box
\* -1..2 x -1..1 x -1..1: every polygon lies on a side of the box, none in
\* its interior, and every side is covered completely.
UnionIsHullBox ==
    Ran("union", <<1, 0, 0>>) =>
        /\ IsBox(heap, result[1], <<-1, -1, -1>>, <<2, 1, 1>>)
        /\ \A k \in 1..3 :
               /\ SideCovered(heap, result[1], k, <<-1, -1, -1>>[k],
                              <<-1, -1, -1>>, <<2, 1, 1>>)
               /\ SideCovered(heap, result[1], k, <<2, 1, 1>>[k],
                              <<-1, -1, -1>>, <<2, 1, 1>>)

\* the two cubes have disjoint extents
Apart(i, j) ==
    /\ IsCube(i)
    /\ IsCube(j)
    /\ \E k \in 1..3 : Abs(shapes[i].at[k] - shapes[j].at[k]) > 2

\* C5: the intersection of two cubes with disjoint extents is empty.
DisjointIntersectIsEmpty ==
    (Done("intersect") /\ lhs \in {1, 2} /\ rhs \in {1, 2} /\ Apart(lhs, rhs)) =>
        result[1] = <<>>

\* C6: the union of two cubes with disjoint extents consists of exactly the
\* polygons of the one and the polygons of the other, twelve in all.
DisjointUnionIsBoth ==
    (Done("union") /\ lhs \in {1, 2} /\ rhs \in {1, 2} /\ Apart(lhs, rhs)) =>
        /\ Len(result[1]) = Len(csgs[lhs]) + Len(csgs[rhs])
        /\ Faces(heap, result[1])
               = Faces(heap, csgs[lhs]) \cup Faces(heap, csgs[rhs])

---------------------------------------------------------------------------
(* The region of space a set of axis-aligned polygons encloses, measured   *)
(* on the unit cells of the grid.  A cell is named by twice its centre.    *)

Cells ==
    {<<2 * i + 1, 2 * j + 1, 2 * k + 1>> :
        i, j, k \in (-(MaxShift + 1))..MaxShift}

\* the ray from the centre of cell c along axis k, in direction s, meets p
Hit(pts, c, k, s) ==
    /\ \A x \in SetOf(pts) : x[k] = pts[1][k]
    /\ s * (2 * pts[1][k] - c[k]) > 0
    /\ \A m \in (1..3) \ {k} :
           /\ \E x \in SetOf(pts) : 2 * x[m] < c[m]
           /\ \E x \in SetOf(pts) : 2 * x[m] > c[m]

\* the cells from which every axis direction leads to a polygon of csg
EnclosedCells(H, csg) ==
    {c \in Cells :
        \A k \in 1..3 : \A s \in {-1, 1} :
            \E p \in SetOf(csg) : Hit(RingPoints(H, p), c, k, s)}

\* C7: a cube minus itself is the empty polygon set, or at most a set that
\* encloses no volume.
SubtractSelfIsEmpty ==
    (Done("subtract") /\ lhs = rhs /\ IsCube(lhs)) =>
        \/ result[1] = <<>>
        \/ EnclosedCells(heap, result[1]) = {}

\* the caller holds, as csgs[3], the value that o returned for operands i, j
Holds(o, i, j) ==
    /\ Len(csgs) = 3
    /\ shapes[3] = [kind |-> o, of |-> <<i, j>>]

\* C8: a cube intersected with its own inverse is the empty polygon set.
IntersectWithInverseIsEmpty ==
    (/\ Done("intersect")
     /\ IsCube(lhs)
     /\ rhs = 3
     /\ Holds("inverse", lhs, 0)) =>
        result[1] = <<>>

\* positions and normals of the vertices in ring order, and the plane
Oriented(H, p) ==
    [points |-> RingPoints(H, p),
     normals |-> [i \in 1..Len(H.arrs[p.vertices]) |->
                     H.verts[H.arrs[p.vertices][i]].normal],
     plane |-> Observe(H, p).plane]

\* C9: the inverse of the inverse of a CSG value has, polygon by polygon,
\* the vertex positions in the original order, the original vertex normals
\* and the original plane.
InverseIsInvolution ==
    (/\ Done("inverse")
     /\ lhs = 3
     /\ \E i \in {1, 2} : Holds("inverse", i, 0)) =>
        \A i \in {1, 2} :
            Holds("inverse", i, 0) =>
                [k \in 1..Len(result[1]) |-> Oriented(heap, result[1][k])]
                    = [k \in 1..Len(csgs[i]) |-> Oriented(heap, csgs[i][k])]

\* C10: the union of two cubes encloses the same region whichever of the
\* two is `this`.
UnionIsOrderIndependent ==
    (/\ Done("union")
     /\ lhs \in {1, 2}
     /\ rhs \in {1, 2}
     /\ IsCube(lhs)
     /\ IsCube(rhs)
     /\ Holds("union", rhs, lhs)) =>
        EnclosedCells(heap, result[1]) = EnclosedCells(heap, csgs[3])

---------------------------------------------------------------------------
(* The class BSPNode used on its own: a caller that builds a tree t from   *)
(* clones of the values it holds, clones it, and inverts, clips and builds *)
(* into the clone c.                                                       *)

\* { ...this.plane }: a new plane object with the same w and the same Vec3
\* object as its normal
SpreadPlane(H, pl) ==
    [H |-> [H EXCEPT !.planes = Append(@, H.planes[pl])],
     ref |-> Len(H.planes) + 1]

\* node.plane = this.plane && { ...this.plane }
ClonePlane(H, node) ==
    IF node.plane # NULL
    THEN Then(SpreadPlane(H, node.plane[1]),
              LAMBDA r : [H |-> r.H, plane |-> Some(r.ref)])
    ELSE [H |-> H, plane |-> NULL]

\* BSPNode.clone: plane, front, back, polygons, in that order
RECURSIVE BSPNode_clone(_, _)
BSPNode_clone(H, node) ==
    Then(ClonePlane(H, node), LAMBDA pl :
    Then(IF node.front # NULL THEN BSPNode_clone(pl.H, node.front[1])
        ELSE [H |-> pl.H, node |-> EmptyNode], LAMBDA fr :
    Then(IF node.back # NULL THEN BSPNode_clone(fr.H, node.back[1])
        ELSE [H |-> fr.H, node |-> EmptyNode], LAMBDA bk :
    Then(CSG_clone(bk.H, node.polygons), LAMBDA ps :
    [H |-> ps.H,
     node |-> [plane |-> pl.plane,
               front |-> IF node.front # NULL THEN Some(fr.node) ELSE NULL,
               back |-> IF node.back # NULL THEN Some(bk.node) ELSE NULL,
               polygons |-> ps.polygons]]))))

\* the ceiling of build, scaled down
SmallCeiling == 2

\* how many calls the caller makes
MaxCalls == 4

\* t is `a`, c is `b`; pc counts the calls made, rhs is the ceiling in
\* force and base the size of the heap before the last call; result holds
\* the recursion paths of the last build
InitTree ==
    \E sb \in Shapes :
        \E ma \in {Make(EmptyHeap, [kind |-> "cube", at |-> <<0, 0, 0>>])} :
        \E mb \in {Make(ma.H, sb)} :
        \E mc \in {Make(mb.H, [kind |-> "cube", at |-> <<0, -1, 0>>])} :
            /\ heap = mc.H
            /\ csgs = <<ma.polygons, mb.polygons, mc.polygons>>
            /\ shapes = <<[kind |-> "cube", at |-> <<0, 0, 0>>], sb,
                          [kind |-> "cube", at |-> <<0, -1, 0>>]>>
            /\ base = Sizes(mc.H)
            /\ pc = 0
            /\ op = "none"
            /\ lhs = 0
            /\ rhs \in {SmallCeiling, CEILING}
            /\ a = Some(EmptyNode)
            /\ b = NULL
            /\ result = NULL

\* t.build(csgs[i].clone().polygons)
BuildInto(i) ==
    /\ pc < MaxCalls
    /\ b = NULL
    /\ \E c \in {CSG_clone(heap, csgs[i])} :
       \E r \in {buildUnder(rhs, c.H, a[1], c.polygons)} :
           /\ heap' = r.H
           /\ a' = Some(r.node)
           /\ result' = Some(r.paths)
    /\ op' = "t.build"
    /\ lhs' = i
    /\ pc' = pc + 1
    /\ base' = Sizes(heap)
    /\ UNCHANGED <<csgs, shapes, rhs, b>>

\* c = t.clone()
CloneTree ==
    /\ pc < MaxCalls
    /\ b = NULL
    /\ a[1].plane # NULL
    /\ \E r \in {BSPNode_clone(heap, a[1])} :
           /\ heap' = r.H
           /\ b' = Some(r.node)
    /\ op' = "t.clone"
    /\ result' = NULL
    /\ pc' = pc + 1
    /\ base' = Sizes(heap)
    /\ UNCHANGED <<csgs, shapes, lhs, rhs, a>>

\* c.invert()
InvertClone ==
    /\ pc < MaxCalls
    /\ b # NULL
    /\ \E r \in {invert(heap, b[1])} :
           /\ heap' = r.H
           /\ b' = Some(r.node)
    /\ op' = "c.invert"
    /\ result' = NULL
    /\ pc' = pc + 1
    /\ base' = Sizes(heap)
    /\ UNCHANGED <<csgs, shapes, lhs, rhs, a>>

\* c.clipTo(t)
ClipClone ==
    /\ pc < MaxCalls
    /\ b # NULL
    /\ \E r \in {clipTo(heap, b[1], a[1])} :
           /\ heap' = r.H
           /\ b' = Some(r.node)
    /\ op' = "c.clipTo"
    /\ lhs' = 0
    /\ result' = NULL
    /\ pc' = pc + 1
    /\ base' = Sizes(heap)
    /\ UNCHANGED <<csgs, shapes, rhs, a>>

\* new BSPNode(csgs[i].clone().polygons)
TreeOf(H, csg) ==
    Then(CSG_clone(H, csg), LAMBDA c : BSPNode(c.H, c.polygons))

\* c.clipTo(new BSPNode(csgs[i].clone().polygons))
ClipCloneTo(i) ==
    /\ pc < MaxCalls
    /\ b # NULL
    /\ \E y \in {TreeOf(heap, csgs[i])} :
       \E r \in {clipTo(y.H, b[1], y.node)} :
           /\ heap' = r.H
           /\ b' = Some(r.node)
    /\ op' = "c.clipTo"
    /\ lhs' = i
    /\ result' = NULL
    /\ pc' = pc + 1
    /\ base' = Sizes(heap)
    /\ UNCHANGED <<csgs, shapes, rhs, a>>

\* c.build(csgs[i].clone().polygons)
BuildClone(i) ==
    /\ pc < MaxCalls
    /\ b # NULL
    /\ \E c \in {CSG_clone(heap, csgs[i])} :
       \E r \in {buildUnder(rhs, c.H, b[1], c.polygons)} :
           /\ heap' = r.H
           /\ b' = Some(r.node)
           /\ result' = Some(r.paths)
    /\ op' = "c.build"
    /\ lhs' = i
    /\ pc' = pc + 1
    /\ base' = Sizes(heap)
    /\ UNCHANGED <<csgs, shapes, rhs, a>>

NextTree ==
    \/ \E i \in 1..Len(csgs) : BuildInto(i)
    \/ CloneTree
    \/ InvertClone
    \/ ClipClone
    \/ \E i \in 1..Len(csgs) : ClipCloneTo(i)
    \/ \E i \in 1..Len(csgs) : BuildClone(i)

SpecTree == InitTree /\ [][NextTree]_vars

\* the number of nodes of a tree
RECURSIVE CountNodes(_)
CountNodes(node) ==
    1 + (IF node.front # NULL THEN CountNodes(node.front[1]) ELSE 0)
      + (IF node.back # NULL THEN CountNodes(node.back[1]) ELSE 0)

\* C21: under the scaled-down ceiling no sequence of build calls yields a
\* tree with more nodes than the ceiling.
NodeCeilingHolds ==
    rhs = SmallCeiling => \A t \in Trees : CountNodes(t) <= SmallCeiling

\* C22: every recursive call made while executing build(P), on a fresh or on
\* an existing node, is given strictly fewer polygons than its caller was,
\* so the recursion is at most |P| deep.
BuildRecursionShrinks ==
    op \in {"t.build", "c.build"} =>
        \A q \in result[1] :
            /\ \A k \in 1..(Len(q) - 1) : q[k + 1] < q[k]
            /\ Len(q) - 1 <= q[1]

\* a build under the real ceiling, into a tree that already had nodes, has
\* recursed at least twice
BuildRecursedOnExistingNode ==
    /\ op = "t.build"
    /\ pc >= 2
    /\ rhs = CEILING
    /\ \E q \in result[1] : Len(q) >= 3

\* C30: after c = t.clone(), no call of invert, clipTo or build on c changes
\* a node plane (normal or offset), a child link or a polygon of t.
CloneIsIndependent ==
    [][(b # NULL /\ b' # NULL) =>
          NodeView(heap', a'[1]) = NodeView(heap, a[1])]_vars

---------------------------------------------------------------------------
\* the stored plane of polygon p is the one through its first three
\* vertices as they are now ordered
PlaneAgrees(H, p) ==
    Observe(H, p).plane = PlaneThrough(RingPoints(H, p))

\* C23: every polygon returned by union, subtract or intersect on cubes has
\* a stored plane equal to the plane derived from its first three vertices
\* in their current order.
ReturnedPlanesAgree ==
    (/\ pc = 0
     /\ op \in BinaryOps
     /\ result # NULL
     /\ IsCube(1)
     /\ IsCube(2)) =>
        \A p \in SetOf(result[1]) : PlaneAgrees(heap, p)

---------------------------------------------------------------------------
\* C24: in every tree of a running operation, after any of its builds,
\* clips, inverts and the merge, every vertex of every polygon in a node's
\* own list classifies as COPLANAR against that node's plane.
NodeListsAreCoplanar ==
    \A t \in Trees :
        \A n \in NodesOf(t) :
            n.polygons # <<>> =>
                /\ n.plane # NULL
                /\ \A p \in SetOf(n.polygons) :
                       SetOf(TypesOf(heap, n.plane[1], p)) = {COPLANAR}

\* a tree that was inverted and clipped has been merged into, and one of
\* its nodes holds a polygon of each operand
MergedNodeHoldsBoth ==
    /\ Last = "a.build(b.allPolygons())"
    /\ op = "subtract"
    /\ lhs # rhs
    /\ \E n \in NodesOf(a[1]) :
           \E p, q \in SetOf(n.polygons) :
               /\ p \in SetOf(allPolygons(b[1]))
               /\ q \notin SetOf(allPolygons(b[1]))

---------------------------------------------------------------------------
\* the Polygon objects the program can reach: those of the values the
\* caller holds, of the trees of the running operation and of the value
\* just returned
Reachable ==
    UNION {SetOf(csgs[k]) : k \in 1..Len(csgs)}
    \cup UNION {SetOf(allPolygons(t)) : t \in Trees}
    \cup (IF result # NULL /\ op \in BinaryOps \cup {"inverse"}
          THEN SetOf(result[1]) ELSE {})

\* two Polygon objects share neither their vertex array nor a Vertex object
OwnVertices(H, p, q) ==
    /\ p.vertices # q.vertices
    /\ SetOf(H.arrs[p.vertices]) \cap SetOf(H.arrs[q.vertices]) = {}

\* C25: no vertex array and no Vertex object is referenced by two distinct
\* Polygon objects.
VerticesAreOwned ==
    \A p, q \in Reachable : p # q => OwnVertices(heap, p, q)

---------------------------------------------------------------------------
\* the plane objects a tree references, from its nodes and from its polygons
PlanesOf(t) ==
    {n.plane[1] : n \in {m \in NodesOf(t) : m.plane # NULL}}
    \cup {p.plane : p \in SetOf(allPolygons(t))}

\* the trees a and b reference no common Polygon object and no common plane
\* object
Disjoint(s, t) ==
    /\ SetOf(allPolygons(s)) \cap SetOf(allPolygons(t)) = {}
    /\ PlanesOf(s) \cap PlanesOf(t) = {}

\* a.build(b.allPolygons()) has been executed
Merged ==
    \E k \in 1..(pc - 1) : Recipe(op)[k] = "a.build(b.allPolygons())"

\* C26: at every step of union, subtract and intersect the trees a and b
\* reference no common polygon object and no common plane object.
TreesNeverShare ==
    (a # NULL /\ b # NULL) => Disjoint(a[1], b[1])

\* C26, amended: until a.build(b.allPolygons()) has run, the trees a and b
\* reference no common polygon object and no common plane object, and no
\* step taken on one of them changes a plane, a child link or a polygon of
\* the other.
TreesShareNothingBeforeMerge ==
    [][(a # NULL /\ b # NULL /\ ~Merged) =>
          /\ Disjoint(a[1], b[1])
          /\ Instr \in {"a.invert()", "a.clipTo(b)"} =>
                 NodeView(heap', b[1]) = NodeView(heap, b[1])
          /\ Instr \in {"b.invert()", "b.clipTo(a)"} =>
                 NodeView(heap', a[1]) = NodeView(heap, a[1])]_vars

\* both trees of an operation on one and the same value have been clipped
\* and inverted, and the merge is next
SameOperandBeforeMerge ==
    /\ Instr = "a.build(b.allPolygons())"
    /\ op = "subtract"
    /\ lhs = rhs
    /\ allPolygons(a[1]) # <<>>
    /\ allPolygons(b[1]) # <<>>

---------------------------------------------------------------------------
\* the signed distances normal . position - w of the vertices of p from the
\* plane object pl, in grid units
DistancesOf(H, pl, p) ==
    {dot(H.vecs[H.planes[pl].normal], x) - H.planes[pl].w :
        x \in SetOf(RingPoints(H, p))}

Above(t) == t * EPSILON.den > EPSILON.num

Below(t) == t * EPSILON.den < -EPSILON.num

\* the list a polygon that does not span the plane is said to be put on
RouteOf(H, pl, p) ==
    IF \A t \in DistancesOf(H, pl, p) : ~Above(t) /\ ~Below(t)
    THEN IF dot(H.vecs[H.planes[pl].normal],
                H.vecs[H.planes[p.plane].normal]) > 0
         THEN "coplanarFront" ELSE "coplanarBack"
    ELSE IF \A t \in DistancesOf(H, pl, p) : ~Below(t) THEN "front"
    ELSE IF \A t \in DistancesOf(H, pl, p) : ~Above(t) THEN "back"
    ELSE "split"

\* C27: splitPolygon appends a polygon that does not span the plane, as the
\* same object, to exactly one list: coplanarFront or coplanarBack when all
\* its vertices are within epsilon of the plane (by the sign of the dot
\* product of the two normals), front when some vertex is above and none
\* below, back when some is below and none above; the polygon's vertices and
\* plane are as before.
NonSpanningIsRoutedWhole ==
    [][(op = "none" /\ RouteOf(heap, a[1].plane[1], csgs[1][1]) # "split") =>
          /\ result'[1] =
                 [[coplanarFront |-> <<>>, coplanarBack |-> <<>>,
                   front |-> <<>>, back |-> <<>>]
                     EXCEPT ![RouteOf(heap, a[1].plane[1], csgs[1][1])]
                                = <<csgs[1][1]>>]
          /\ heap'.arrs[csgs[1][1].vertices] = heap.arrs[csgs[1][1].vertices]
          /\ Observe(heap', csgs[1][1]) = Observe(heap, csgs[1][1])]_vars

\* a polygon lying in the plane of another polygon, facing the other way,
\* has been routed
RoutedCoplanarBack ==
    /\ op = "splitPolygon"
    /\ csgs[1] # csgs[2]
    /\ result[1].coplanarBack = <<csgs[1][1]>>

---------------------------------------------------------------------------
\* the polygons at hand after a split: the one that was split, the one whose
\* plane was used, and every polygon on the four lists
Polygons ==
    SetOf(csgs[1]) \cup SetOf(csgs[2])
    \cup (IF op = "splitPolygon"
          THEN SetOf(result[1].coplanarFront \o result[1].coplanarBack
                     \o result[1].front \o result[1].back)
          ELSE {})

\* p.flip(); p.flip()
FlipTwice(H, p) == Polygon_flip(Polygon_flip(H, p), p)

\* no other polygon at hand references a vertex or the plane of p
Unshared(H, p) ==
    \A q \in Polygons \ {p} : OwnVertices(H, p, q) /\ q.plane # p.plane

\* C28: flip() reverses the vertex order, negates every vertex normal and
\* negates the plane's normal and offset, and leaves positions and uvs as
\* they are; flip() twice on a polygon that shares nothing restores vertex
\* order, normals and plane.
FlipReversesAndNegates ==
    \A p \in Polygons :
        /\ Observe(Polygon_flip(heap, p), p) = Flipped(Observe(heap, p))
        /\ Unshared(heap, p) =>
               Observe(FlipTwice(heap, p), p) = Observe(heap, p)

\* a polygon off the origin, with vertex normals, that shares nothing with
\* the other polygons at hand (while the fragments of a split share
\* vertices with the polygon they were cut from)
FlippableUnshared ==
    /\ op = "splitPolygon"
    /\ csgs[1] # csgs[2]
    /\ result[1].back = <<csgs[1][1]>>
    /\ Unshared(heap, csgs[1][1])
    /\ Observe(heap, csgs[1][1]).plane.w # 0
    /\ \A i \in 1..Len(Observe(heap, csgs[1][1]).ring) :
           Observe(heap, csgs[1][1]).ring[i].normal # <<0, 0, 0>>
    /\ Observe(Polygon_flip(heap, csgs[1][1]), csgs[1][1])
           # Observe(heap, csgs[1][1])

---------------------------------------------------------------------------
\* a tree without its polygon lists: the plane and the children of every node
RECURSIVE Skeleton(_, _)
Skeleton(H, node) ==
    [plane |-> IF node.plane # NULL
               THEN Some([normal |-> H.vecs[H.planes[node.plane[1]].normal],
                          w |-> H.planes[node.plane[1]].w])
               ELSE NULL,
     ref |-> node.plane,
     front |-> IF node.front # NULL THEN Some(Skeleton(H, node.front[1]))
               ELSE NULL,
     back |-> IF node.back # NULL THEN Some(Skeleton(H, node.back[1]))
              ELSE NULL]

\* the Polygon objects of a list that were made after the heap had `n`
\* plane objects, by the order in which they were made
MadeAfter(polygons, n) == {p.plane : p \in {q \in SetOf(polygons) : q.plane > n}}

Before(S, T) == \A x \in S : \A y \in T : x < y

\* in every node, what the call made for the node's own list was made
\* before what it made for the front child, and that before what it made
\* for the back child
RECURSIVE OwnFrontBack(_, _)
OwnFrontBack(node, n) ==
    LET own == MadeAfter(node.polygons, n)
        fr == IF node.front # NULL
              THEN MadeAfter(allPolygons(node.front[1]), n) ELSE {}
        bk == IF node.back # NULL
              THEN MadeAfter(allPolygons(node.back[1]), n) ELSE {}
    IN  /\ Before(own, fr)
        /\ Before(own, bk)
        /\ Before(fr, bk)
        /\ node.front # NULL => OwnFrontBack(node.front[1], n)
        /\ node.back # NULL => OwnFrontBack(node.back[1], n)

\* what x.clipTo(y) is said to do, for the heap H and the trees x, y before
\* the call and the heap H1 and the tree x1 after it
ClipToFrame(H, H1, x, x1, y) ==
    /\ Skeleton(H1, x1) = Skeleton(H, x)
    /\ NodeView(H1, y) = NodeView(H, y)
    /\ OwnFrontBack(x1, Len(H.planes))

\* C29: x.clipTo(y) leaves the planes and the child structure of x, and
\* the planes, children and polygon lists of y, as they were, and visits a
\* node's own list before its front child and its front child before its
\* back child.
ClipToChangesOnlyLists ==
    [][op' = "c.clipTo" =>
          /\ a' = a
          /\ lhs' = 0 => ClipToFrame(heap, heap', b[1], b'[1], a[1])
          /\ lhs' # 0 =>
                 \A y \in {TreeOf(heap, csgs[lhs'])} :
                     ClipToFrame(y.H, heap', b[1], b'[1], y.node)]_vars

\* a clip has cut polygons in the front child and in the back child of one
\* node
ClippedOnBothSides ==
    /\ op = "c.clipTo"
    /\ \E n \in NodesOf(b[1]) :
           /\ n.front # NULL
           /\ n.back # NULL
           /\ MadeAfter(allPolygons(n.front[1]), base.planes) # {}
           /\ MadeAfter(allPolygons(n.back[1]), base.planes) # {}



====
